---- MODULE Spec2Model ----
(***************************************************************************)
(* Model of the oplog-to-SQL translator of op-log-parser                   *)
(* (application/domain/parsers: opLogParser).  One translator instance     *)
(* owns a schema catalog (ddlTracker, columnsTracker) and turns each oplog *)
(* record into a batch of SQL statements.                                  *)
(*                                                                         *)
(* Strings are TLA+ strings; their byte order (sort.Strings) is computed   *)
(* character by character.  A decoded JSON/BSON value is a record tagged   *)
(* with its Go dynamic type in field k.  A statement is a record holding   *)
(* the arguments of the fmt.Sprintf template that builds it; Render gives  *)
(* the text.                                                               *)
(***************************************************************************)
EXTENDS Integers, Sequences, FiniteSets, TLC

\* ------------------------------------------------------------------------
\* Bounds
\* ------------------------------------------------------------------------
\* number of records one translator instance is fed
MaxRecords == 3

\* ------------------------------------------------------------------------
\* Program constants
\* ------------------------------------------------------------------------
Insert == "i"
Update == "u"
Delete == "d"
fieldID == "_id"
fieldDiff == "diff"
fieldSet == "u"
fieldUnset == "d"
fieldNull == "NULL"

\* error values (the messages of the fmt.Errorf calls), named by the tag the
\* specification gives them
ErrInvalidNamespace == "error parsing namespace, invalid namespace"
ErrMissingData == "empty data field for insert"
ErrMissingId == "_id field is missing"
ErrMalformedUpdate == "invalid diff field in update oplog"
ErrTypeError == "error converting to sql type"
ErrNotAMap == "expected map[string]any"
ErrUnsupportedOperation == "unsupported oplog operation"
\* a failed type assertion opLog.Data["_id"].(string) is a run-time panic
Panic == "panic: interface conversion"
NoError == "nil"

\* ------------------------------------------------------------------------
\* Strings: byte order as used by sort.Strings
\* ------------------------------------------------------------------------
\* the characters that occur in the model, in ascending byte order
CharOrder ==
    << "\t", " ", "'", ".", "0", "1", "2", "3", "4", "5", "6", "7", "8", "9",
       ":", "<", "=", ">", "L", "N", "U", "[", "]", "_",
       "a", "b", "c", "d", "e", "f", "g", "h", "i", "j", "k", "l", "m", "n",
       "o", "p", "q", "r", "s", "t", "u", "v", "w", "x", "y", "z" >>

Ord(c) == CHOOSE i \in 1..Len(CharOrder) : CharOrder[i] = c

CharAt(s, i) == SubSeq(s, i, i)

RECURSIVE LessFrom(_, _, _)
LessFrom(a, b, i) ==
    IF i > Len(a) THEN i <= Len(b)
    ELSE IF i > Len(b) THEN FALSE
    ELSE IF CharAt(a, i) = CharAt(b, i) THEN LessFrom(a, b, i + 1)
    ELSE Ord(CharAt(a, i)) < Ord(CharAt(b, i))

\* a < b in Go's string order
StrLess(a, b) == LessFrom(a, b, 1)

\* sort.Strings applied to the elements of a set of distinct strings
RECURSIVE SortStrings(_)
SortStrings(S) ==
    IF S = {} THEN << >>
    ELSE LET m == CHOOSE x \in S : \A y \in S \ {x} : StrLess(x, y)
         IN  << m >> \o SortStrings(S \ {m})

\* strings.Join
RECURSIVE Join(_, _)
Join(seq, sep) ==
    IF Len(seq) = 0 THEN ""
    ELSE IF Len(seq) = 1 THEN seq[1]
    ELSE seq[1] \o sep \o Join(Tail(seq), sep)

\* strings.Split(s, "."): the pieces between the dots
RECURSIVE SplitFrom(_, _, _)
SplitFrom(s, i, cur) ==
    IF i > Len(s) THEN << cur >>
    ELSE IF CharAt(s, i) = "." THEN << cur >> \o SplitFrom(s, i + 1, "")
    ELSE SplitFrom(s, i + 1, cur \o CharAt(s, i))

SplitDot(s) == SplitFrom(s, 1, "")

Range(seq) == { seq[i] : i \in 1..Len(seq) }

\* ------------------------------------------------------------------------
\* Values (Go's any after decoding)
\* ------------------------------------------------------------------------
Str(s) == [k |-> "string", s |-> s]
Bool(b) == [k |-> "bool", b |-> b]
\* a float64 holding e7 / 10^7 (non-negative)
Float(e7) == [k |-> "float64", e7 |-> e7]
Whole(n) == Float(n * 10000000)
\* an int64, as BSON decoding yields for an integer
Int64(n) == [k |-> "int64", n |-> n]
Nil == [k |-> "nil"]
Map(m) == [k |-> "map", m |-> m]
Arr(a) == [k |-> "array", a |-> a]
\* the empty map[string]any
EmptyMap == [x \in {} |-> Nil]

Has(m, key) == key \in DOMAIN m
\* m[key] = v on a Go map
Put(m, key, v) == [x \in DOMAIN m \cup {key} |-> IF x = key THEN v ELSE m[x]]

\* ------------------------------------------------------------------------
\* Value formatting and type inference
\* ------------------------------------------------------------------------
RECURSIVE Digits(_, _)
\* n in decimal, left-padded with zeros to width w
Digits(n, w) ==
    IF w = 0 THEN "" ELSE Digits(n \div 10, w - 1) \o ToString(n % 10)

RECURSIVE TrimZeros(_)
TrimZeros(s) ==
    IF Len(s) > 0 /\ CharAt(s, Len(s)) = "0"
    THEN TrimZeros(SubSeq(s, 1, Len(s) - 1))
    ELSE s

E7 == 10000000

\* fmt.Sprintf("%f", val): six fractional digits, rounded
FormatF(e7) ==
    LET micro == (e7 + 5) \div 10
    IN  ToString(micro \div 1000000) \o "." \o Digits(micro % 1000000, 6)

\* fmt.Sprintf("%v", val) of a float64: shortest representation
FormatG(e7) ==
    IF e7 % E7 = 0 THEN ToString(e7 \div E7)
    ELSE ToString(e7 \div E7) \o "." \o TrimZeros(Digits(e7 % E7, 7))

\* fmt.Sprintf("%v", v): maps print their keys sorted, elements separated
\* by a space
RECURSIVE GoV(_)
GoV(v) ==
    CASE v.k = "string" -> v.s
      [] v.k = "bool" -> IF v.b THEN "true" ELSE "false"
      [] v.k = "float64" -> FormatG(v.e7)
      [] v.k = "int64" -> ToString(v.n)
      [] v.k = "nil" -> "<nil>"
      [] v.k = "map" ->
            LET keys == SortStrings(DOMAIN v.m)
            IN  "map[" \o
                Join([i \in 1..Len(keys) |-> keys[i] \o ":" \o GoV(v.m[keys[i]])], " ")
                \o "]"
      [] v.k = "array" ->
            "[" \o Join([i \in 1..Len(v.a) |-> GoV(v.a[i])], " ") \o "]"

formatValue(v) ==
    CASE v.k = "string" -> "'" \o v.s \o "'"
      [] v.k = "bool" -> IF v.b THEN "true" ELSE "false"
      [] v.k = "float64" ->
            IF v.e7 % E7 = 0 THEN ToString(v.e7 \div E7) ELSE FormatF(v.e7)
      [] OTHER -> "'" \o GoV(v) \o "'"

\* [type, err]
getSqlType(fieldName, value) ==
    IF fieldName = fieldID
    THEN [type |-> "VARCHAR(255) PRIMARY KEY", err |-> NoError]
    ELSE CASE value.k = "string" -> [type |-> "VARCHAR(255)", err |-> NoError]
           [] value.k = "bool" -> [type |-> "BOOLEAN", err |-> NoError]
           [] value.k \in {"float64", "int64"} -> [type |-> "FLOAT", err |-> NoError]
           [] OTHER -> [type |-> "", err |-> ErrTypeError]

\* ------------------------------------------------------------------------
\* Statements
\* ------------------------------------------------------------------------
\* kind: the SQL verb; cols: column names; items: the column types
\* (CREATE/ALTER), the formatted values (INSERT) or the SET clauses (UPDATE);
\* id: the text after "WHERE _id = "
Stmt(kind, schema, table, cols, items, id) ==
    [kind |-> kind, schema |-> schema, table |-> table,
     cols |-> cols, items |-> items, id |-> id]

NoStmt == Stmt("", "", "", << >>, << >>, "")

\* the table key a statement targets
Key(st) == st.schema \o "." \o st.table

\* the text of a statement (the fmt.Sprintf templates)
Render(st) ==
    LET defs == Join([i \in 1..Len(st.cols) |-> st.cols[i] \o " " \o st.items[i]], ", ")
    IN  CASE st.kind = "CREATE SCHEMA" -> "CREATE SCHEMA " \o st.schema \o ";"
          [] st.kind = "CREATE TABLE" ->
                "CREATE TABLE " \o Key(st) \o " (" \o defs \o ");"
          [] st.kind = "ALTER TABLE" ->
                "ALTER TABLE " \o Key(st) \o " ADD " \o defs \o ";"
          [] st.kind = "INSERT" ->
                "INSERT INTO " \o Key(st) \o " (" \o Join(st.cols, ", ")
                \o ") VALUES (" \o Join(st.items, ", ") \o ");"
          [] st.kind = "UPDATE" ->
                "UPDATE " \o Key(st) \o " SET " \o Join(st.items, ", ")
                \o " WHERE _id = '" \o st.id \o "';"
          [] st.kind = "DELETE" ->
                "DELETE FROM " \o Key(st) \o " WHERE _id = " \o st.id \o ";"

\* the result of a column loop: the sql types, or the conversion error that
\* ended it
TypesOrError(res) ==
    IF \E i \in 1..Len(res) : res[i].err # NoError
    THEN [types |-> << >>, err |-> ErrTypeError]
    ELSE [types |-> [i \in 1..Len(res) |-> res[i].type], err |-> NoError]

\* the loop over the sorted columns of prepareTableDDL, prepareNestedTableDDL
\* and prepareAlterStatement
ColumnDefinitions(columns, data) ==
    TypesOrError([i \in 1..Len(columns) |-> getSqlType(columns[i], data[columns[i]])])

\* the statement of a column loop that ended without error
DDLStatement(kind, schema, table, columns, defs) ==
    IF defs.err # NoError THEN [stmt |-> NoStmt, err |-> defs.err]
    ELSE [stmt |-> Stmt(kind, schema, table, columns, defs.types, ""), err |-> NoError]

DDLFor(kind, schema, table, columns, data) ==
    DDLStatement(kind, schema, table, columns, ColumnDefinitions(columns, data))

prepareTableDDL(schema, table, data) ==
    DDLFor("CREATE TABLE", schema, table, SortStrings(DOMAIN data), data)

\* the back-reference column takes the type of the parent id (a string)
prepareNestedTableDDL(schema, table, data, parentTable, referenceTableId) ==
    DDLFor("CREATE TABLE", schema, table, SortStrings(DOMAIN data),
           [c \in DOMAIN data |->
              IF c = parentTable \o "__id" THEN Str(referenceTableId) ELSE data[c]])

prepareAlterStatement(schema, table, newFields) ==
    DDLFor("ALTER TABLE", schema, table, SortStrings(DOMAIN newFields), newFields)

\* the INSERT with the given column list: NULL for a column the row lacks
InsertStatement(schema, table, data, columns) ==
    Stmt("INSERT", schema, table, columns,
         [i \in 1..Len(columns) |->
            IF Has(data, columns[i]) THEN formatValue(data[columns[i]]) ELSE fieldNull],
         "")

\* mutant of prepareInsertStatement: only the columns the row has
prepareInsertStatementRowColumns(schema, table, data, knownColumns) ==
    IF DOMAIN data = {} THEN [stmt |-> NoStmt, err |-> ErrMissingData]
    ELSE [stmt |-> InsertStatement(schema, table, data,
                                   SortStrings(knownColumns \cap DOMAIN data)),
          err |-> NoError]

\* mutant of prepareInsertStatement: empty data is accepted
prepareInsertStatementAnyData(schema, table, data, knownColumns) ==
    [stmt |-> InsertStatement(schema, table, data, SortStrings(knownColumns)),
     err |-> NoError]

\* knownColumns: the set of keys of the map[string]bool
prepareInsertStatement(schema, table, data, knownColumns) ==
    IF DOMAIN data = {} THEN [stmt |-> NoStmt, err |-> ErrMissingData]
    ELSE [stmt |-> InsertStatement(schema, table, data, SortStrings(knownColumns)),
          err |-> NoError]

\* mutant of NamespaceParts: empty parts are accepted
NamespacePartsAllowEmpty(parts) ==
    IF Len(parts) # 2
    THEN [schema |-> "", table |-> "", err |-> ErrInvalidNamespace]
    ELSE [schema |-> parts[1], table |-> parts[2], err |-> NoError]

\* the result of strings.Split checked by parseNamespace
NamespaceParts(parts) ==
    IF Len(parts) # 2 \/ parts[1] = "" \/ parts[2] = ""
    THEN [schema |-> "", table |-> "", err |-> ErrInvalidNamespace]
    ELSE [schema |-> parts[1], table |-> parts[2], err |-> NoError]

\* [schema, table, err]
parseNamespace(namespace) == NamespaceParts(SplitDot(namespace))

\* the three partitions of an insert's data; an empty array is in none
splitData(data) ==
    LET isNested(key) == data[key].k = "map"
        isArray(key) == /\ data[key].k = "array"
                        /\ Len(data[key].a) > 0
                        /\ data[key].a[1].k = "map"
        isDropped(key) == data[key].k = "array" /\ Len(data[key].a) = 0
        nk == { key \in DOMAIN data : isNested(key) }
        ak == { key \in DOMAIN data : isArray(key) }
        mk == { key \in DOMAIN data : ~isNested(key) /\ ~isArray(key) /\ ~isDropped(key) }
    IN  [main |-> [key \in mk |-> data[key]],
         nested |-> [key \in nk |-> data[key]],
         arrays |-> [key \in ak |-> data[key].a]]

\* ------------------------------------------------------------------------
\* The schema catalog
\* ------------------------------------------------------------------------
\* ddl: map[string]bool; cols: map[string]map[string]bool, whose inner maps
\* only ever hold true and are modelled by their key sets
isDDLGenerated(ddl, namespace) == Has(ddl, namespace) /\ ddl[namespace]

markDDLGenerated(ddl, namespace) == Put(ddl, namespace, TRUE)

getKnownColumns(cols, namespace) ==
    IF Has(cols, namespace) THEN cols[namespace] ELSE {}

\* mutant of initializeColumnTracker: only the identifier becomes a column
initializeColumnTrackerIdOnly(cols, namespace, data) ==
    Put(cols, namespace, DOMAIN data \cap {fieldID})

initializeColumnTracker(cols, namespace, data) ==
    Put(cols, namespace, DOMAIN data)

\* mutant of updateColumnsTracker: the new fields are not recorded
updateColumnsTrackerNoMerge(cols, namespace, newFields) == cols

\* mutant of updateColumnsTracker: the new fields replace the known columns
updateColumnsTrackerReplace(cols, namespace, newFields) ==
    IF Has(cols, namespace) THEN Put(cols, namespace, DOMAIN newFields) ELSE cols

updateColumnsTracker(cols, namespace, newFields) ==
    IF Has(cols, namespace)
    THEN Put(cols, namespace, cols[namespace] \cup DOMAIN newFields)
    ELSE cols

\* ------------------------------------------------------------------------
\* Insert handling
\* ------------------------------------------------------------------------
\* The local state of one call of handleInsert:
\*   ddl, cols  the catalog
\*   first      the branch taken: the namespace had no DDL when the call began
\*   stmts      the local slice "statements"
\*   seen       for each appended statement, the columnsTracker at the moment
\*              it was appended and the row it was built from (history)
\*   data       opLog.Data, whose nested maps the call writes to in place
\*   calls      number of uuidGenerator calls so far
\*   err        NoError, or the error that ended the call

\* mutant of Emit: the statement is put in front of the slice
EmitInFront(s, stmt, row) ==
    [s EXCEPT !.stmts = << stmt >> \o @,
              !.seen = << [cols |-> s.cols, row |-> row] >> \o @]

\* statements = append(statements, stmt)
Emit(s, stmt, row) ==
    [s EXCEPT !.stmts = Append(@, stmt),
              !.seen = Append(@, [cols |-> s.cols, row |-> row])]

\* return nil, err
Fail(s, err) == [s EXCEPT !.err = err]

\* a prepared statement is appended, or its error returned
EmitPrepared(s, res, row) ==
    IF res.err # NoError THEN Fail(s, res.err) ELSE Emit(s, res.stmt, row)

\* the identifier generator: uuid.New() never repeats
uuidGenerator(calls) == "uuid" \o ToString(calls + 1)

\* the nested object of a field (idx = 0) or the idx-th element of its array
Item(data, field, idx) == IF idx = 0 THEN data[field] ELSE data[field].a[idx]

\* the two writes to nestedData, which is the caller's map
Augmented(s, parentID, parentTable, field, idx) ==
    Put(Put(Item(s.data, field, idx).m, fieldID, Str(uuidGenerator(s.calls))),
        parentTable \o "_" \o fieldID, Str(parentID))

\* mutant of WriteBack: the generator is called twice for a child row
WriteBackTwoCalls(s, field, idx, nestedData) ==
    [s EXCEPT !.calls = @ + 2,
              !.data = IF idx = 0 THEN Put(@, field, Map(nestedData))
                       ELSE Put(@, field, Arr([@[field].a EXCEPT ![idx] = Map(nestedData)]))]

WriteBack(s, field, idx, nestedData) ==
    [s EXCEPT !.calls = @ + 1,
              !.data = IF idx = 0 THEN Put(@, field, Map(nestedData))
                       ELSE Put(@, field, Arr([@[field].a EXCEPT ![idx] = Map(nestedData)]))]

\* markDDLGenerated, initializeColumnTracker, append of the CREATE TABLE
RegisterChild(s, tableSchemaName, nestedData, ddlRes) ==
    IF ddlRes.err # NoError THEN Fail(s, ddlRes.err)
    ELSE Emit([s EXCEPT !.ddl = markDDLGenerated(@, tableSchemaName),
                        !.cols = initializeColumnTracker(@, tableSchemaName, nestedData)],
              ddlRes.stmt, EmptyMap)

\* mutant of ChildDDL: every child row creates its table
ChildDDLEveryRow(s, schema, table, parentID, parentTable, nestedData) ==
    RegisterChild(s, schema \o "." \o table, nestedData,
                  prepareNestedTableDDL(schema, table, nestedData, parentTable, parentID))

\* if !op.isDDLGenerated(tableSchemaName) { ... }
ChildDDL(s, schema, table, parentID, parentTable, nestedData) ==
    IF isDDLGenerated(s.ddl, schema \o "." \o table) THEN s
    ELSE RegisterChild(s, schema \o "." \o table, nestedData,
                       prepareNestedTableDDL(schema, table, nestedData, parentTable, parentID))

\* the INSERT of the child row
ChildInsert(s, schema, table, nestedData) ==
    IF s.err # NoError THEN s
    ELSE EmitPrepared(s,
                      prepareInsertStatement(schema, table, nestedData,
                                             getKnownColumns(s.cols, schema \o "." \o table)),
                      nestedData)

ChildRow(s, schema, table, parentID, parentTable, nestedData) ==
    ChildInsert(ChildDDL(s, schema, table, parentID, parentTable, nestedData),
                schema, table, nestedData)

\* a nested object (idx = 0) or the idx-th element of a nested array, under
\* field "field" of the record
generateTableDDLAndInsertForNestedObject(s, schema, table, parentID, parentTable, field, idx) ==
    IF Item(s.data, field, idx).k # "map" THEN Fail(s, ErrNotAMap)
    ELSE ChildRow(WriteBack(s, field, idx, Augmented(s, parentID, parentTable, field, idx)),
                  schema, table, parentID, parentTable,
                  Augmented(s, parentID, parentTable, field, idx))

\* the calls of generateTableDDLAndInsertForArray for the array fields, in
\* the order the range loop visits the fields and in index order within one
RECURSIVE ArrayJobs(_, _)
ArrayJobs(arrays, arrayOrder) ==
    IF Len(arrayOrder) = 0 THEN << >>
    ELSE [i \in 1..Len(arrays[Head(arrayOrder)]) |-> [field |-> Head(arrayOrder), idx |-> i]]
         \o ArrayJobs(arrays, Tail(arrayOrder))

\* the calls the two range loops of handleInsert make: one per nested object,
\* then one per array element
Jobs(split, nestedOrder, arrayOrder) ==
    [i \in 1..Len(nestedOrder) |-> [field |-> nestedOrder[i], idx |-> 0]]
    \o ArrayJobs(split.arrays, arrayOrder)

RECURSIVE RunJobs(_, _, _, _, _)
RunJobs(s, jobs, schema, table, parentID) ==
    IF Len(jobs) = 0 \/ s.err # NoError THEN s
    ELSE RunJobs(generateTableDDLAndInsertForNestedObject(
                     s, schema, table \o "_" \o Head(jobs).field, parentID, table,
                     Head(jobs).field, Head(jobs).idx),
                 Tail(jobs), schema, table, parentID)

\* CREATE SCHEMA and CREATE TABLE of a first insert
FirstInsertDDL(s, ns, tableRes) ==
    IF tableRes.err # NoError THEN Fail(s, tableRes.err)
    ELSE Emit(Emit(s, Stmt("CREATE SCHEMA", ns.schema, "", << >>, << >>, ""), EmptyMap),
              tableRes.stmt, EmptyMap)

\* the fields of mainData that are not known columns
NewFields(main, knownColumns) ==
    [col \in { c \in DOMAIN main : c \notin knownColumns } |-> main[col]]

\* the ALTER TABLE of a later insert, and updateColumnsTracker
AlterDDL(s, namespace, newFields, alterRes) ==
    IF DOMAIN newFields = {} THEN s
    ELSE IF alterRes.err # NoError THEN Fail(s, alterRes.err)
    ELSE [Emit(s, alterRes.stmt, EmptyMap) EXCEPT
            !.cols = updateColumnsTracker(@, namespace, newFields)]

AlterFor(s, opLog, ns, newFields) ==
    AlterDDL(s, opLog.ns, newFields, prepareAlterStatement(ns.schema, ns.table, newFields))

\* the statements before the nested loops, in either branch
ParentDDL(s, opLog, ns, split) ==
    IF s.first
    THEN FirstInsertDDL(s, ns, prepareTableDDL(ns.schema, ns.table, split.main))
    ELSE AlterFor(s, opLog, ns, NewFields(split.main, getKnownColumns(s.cols, opLog.ns)))

\* the two range loops; opLog.Data[fieldID].(string) is evaluated for each
\* call and panics unless _id is a string
NestedLoops(s, opLog, ns, jobs) ==
    IF s.err # NoError \/ Len(jobs) = 0 THEN s
    ELSE IF ~(Has(opLog.o, fieldID) /\ opLog.o[fieldID].k = "string") THEN Fail(s, Panic)
    ELSE RunJobs(s, jobs, ns.schema, ns.table, opLog.o[fieldID].s)

\* markDDLGenerated and initializeColumnTracker at the end of the first branch
RegisterParent(s, opLog, split) ==
    IF s.err # NoError \/ ~s.first THEN s
    ELSE [s EXCEPT !.ddl = markDDLGenerated(@, opLog.ns),
                   !.cols = initializeColumnTracker(@, opLog.ns, split.main)]

\* the INSERT of the parent row, built from opLog.Data
ParentInsert(s, opLog, ns) ==
    IF s.err # NoError THEN s
    ELSE EmitPrepared(s,
                      prepareInsertStatement(ns.schema, ns.table, s.data,
                                             getKnownColumns(s.cols, opLog.ns)),
                      s.data)

InsertInto(s, opLog, ns, split, jobs) ==
    IF ns.err # NoError THEN Fail(s, ns.err)
    ELSE ParentInsert(
           RegisterParent(
             NestedLoops(ParentDDL(s, opLog, ns, split), opLog, ns, jobs),
             opLog, split),
           opLog, ns)

\* nestedOrder, arrayOrder: the order in which the range loops visit the keys
\* of nestedData and arrayData (Go leaves it unspecified)
handleInsert(ddl, cols, calls, opLog, nestedOrder, arrayOrder) ==
    InsertInto([ddl |-> ddl, cols |-> cols, first |-> ~isDDLGenerated(ddl, opLog.ns),
                stmts |-> << >>, seen |-> << >>, data |-> opLog.o, calls |-> calls,
                err |-> NoError],
               opLog, parseNamespace(opLog.ns), splitData(opLog.o),
               Jobs(splitData(opLog.o), nestedOrder, arrayOrder))

\* ------------------------------------------------------------------------
\* Update and delete handling
\* ------------------------------------------------------------------------
NoO2 == [nil |-> TRUE, ID |-> ""]
O2(id) == [nil |-> FALSE, ID |-> id]

\* mutant of MissingO2: the empty id is accepted
MissingO2NilOnly(o2) == o2.nil

\* opLog.O2 == nil || opLog.O2.ID == ""
MissingO2(o2) == o2.nil \/ o2.ID = ""

\* mutant of AppendSorted: the whole list is sorted after the append
AppendThenSort(setClauses, sets) == SortStrings(Range(setClauses) \cup sets)

\* if len(sets) > 0 { sort.Strings(sets); setClauses = append(setClauses, sets...) }
\* sets: the clauses of one group, built in map order
AppendSorted(setClauses, sets) == setClauses \o SortStrings(sets)

\* a group of the diff: its mapping, or no fields when it is absent or not a
\* mapping
DiffGroup(diff, name) ==
    IF Has(diff, name) /\ diff[name].k = "map" THEN diff[name].m ELSE EmptyMap

\* the SET list: the sorted clauses of diff.u, then the sorted clauses of diff.d
SetClauses(setFields, unsetFields) ==
    AppendSorted(
      AppendSorted(<< >>, { f \o " = " \o formatValue(setFields[f]) : f \in DOMAIN setFields }),
      { f \o " = " \o fieldNull : f \in DOMAIN unsetFields })

UpdateStatement(opLog, ns, diff) ==
    IF ns.err # NoError THEN [stmts |-> << >>, err |-> ns.err]
    ELSE [stmts |-> << Stmt("UPDATE", ns.schema, ns.table, << >>,
                            SetClauses(DiffGroup(diff, fieldSet), DiffGroup(diff, fieldUnset)),
                            opLog.o2.ID) >>,
          err |-> NoError]

\* [stmts, err]
handleUpdate(opLog) ==
    IF MissingO2(opLog.o2) THEN [stmts |-> << >>, err |-> ErrMissingId]
    ELSE IF ~(Has(opLog.o, fieldDiff) /\ opLog.o[fieldDiff].k = "map")
    THEN [stmts |-> << >>, err |-> ErrMalformedUpdate]
    ELSE UpdateStatement(opLog, parseNamespace(opLog.ns), opLog.o[fieldDiff].m)

DeleteStatement(opLog, ns) ==
    IF ns.err # NoError THEN [stmts |-> << >>, err |-> ns.err]
    ELSE [stmts |-> << Stmt("DELETE", ns.schema, ns.table, << >>, << >>,
                            formatValue(opLog.o[fieldID])) >>,
          err |-> NoError]

handleDelete(opLog) ==
    IF ~Has(opLog.o, fieldID) THEN [stmts |-> << >>, err |-> ErrMissingId]
    ELSE DeleteStatement(opLog, parseNamespace(opLog.ns))

\* ------------------------------------------------------------------------
\* The records fed to the translator
\* ------------------------------------------------------------------------
OpLog(op, ns, o, o2) == [op |-> op, ns |-> ns, o |-> o, o2 |-> o2]

NoOpLog == OpLog("", "", EmptyMap, NoO2)

\* the "o" documents of the insert records
Flat == ("_id" :> Str("1")) @@ ("a" :> Str("v"))
Wider == ("_id" :> Str("2")) @@ ("a" :> Str("w")) @@ ("b" :> Float(955000000))
Array == ("_id" :> Str("5")) @@ ("b" :> Bool(TRUE))
         @@ ("f" :> Arr(<< Map(("x" :> Str("p"))), Map(("y" :> Whole(7))) >>))
TwoNested == ("_id" :> Str("6")) @@ ("f" :> Map(("x" :> Str("p"))))
             @@ ("g" :> Map(("_id" :> Str("c")) @@ ("t__id" :> Str("z"))
                            @@ ("x" :> Bool(FALSE))))
\* an array whose second element is not a document
BadElement == ("_id" :> Str("7")) @@ ("a" :> Str("v"))
              @@ ("f" :> Arr(<< Map(("x" :> Str("p"))), Str("q") >>))
NullField == ("_id" :> Str("8")) @@ ("b" :> Nil)
NoIdNested == ("f" :> Map(("x" :> Str("p"))))
NoIdFlat == ("a" :> Str("v"))
EmptyArray == ("_id" :> Str("9")) @@ ("f" :> Arr(<< >>))
\* the same array in a document without identifier
BadElementNoId == ("f" :> Arr(<< Map(("x" :> Str("p"))), Str("q") >>))
\* a nested document that itself holds a document
Deep == ("_id" :> Str("4")) @@ ("f" :> Map(("x" :> Map(("y" :> Str("p"))))))
\* an array of scalars
ScalarArray == ("_id" :> Str("3")) @@ ("a" :> Arr(<< Str("p"), Whole(2) >>))

InsertRecords ==
    { OpLog(Insert, "s.t", o, NoO2) :
        o \in { Flat, Wider, Array, TwoNested, BadElement,
                NullField, NoIdNested, NoIdFlat, EmptyArray, ScalarArray,
                BadElementNoId, Deep, EmptyMap } }
    \cup { OpLog(Insert, "s.u", Flat, NoO2),
           OpLog(Insert, "s.t_f", Flat, NoO2),
           OpLog(Insert, "st", EmptyMap, NoO2),
           OpLog(Insert, "s.t.u", Flat, NoO2),
           OpLog(Insert, "s.", Flat, NoO2) }

Diff(d) == ("diff" :> Map(d))
SetBoth == ("u" :> Map(("b" :> Whole(3)) @@ ("x" :> Str("n"))))
           @@ ("d" :> Map(("a" :> Bool(TRUE)) @@ ("c" :> Whole(1))))
SetOnly == ("u" :> Map(("b" :> Bool(TRUE)) @@ ("a" :> Float(15000000))))
UnsetOnly == ("d" :> Map(("b" :> Bool(TRUE))))
EmptyGroup == ("u" :> Map(EmptyMap))

UpdateRecords ==
    { OpLog(Update, "s.t", Diff(d), O2("k")) :
        d \in { SetBoth, SetOnly, UnsetOnly, EmptyGroup, EmptyMap } }
    \cup { OpLog(Update, "s.t", EmptyMap, O2("k")),
           OpLog(Update, "s.t", ("diff" :> Str("x")), O2("k")),
           OpLog(Update, "s.t", Diff(SetOnly), NoO2),
           OpLog(Update, "s.t", Diff(SetOnly), O2("")),
           OpLog(Update, "s.t", EmptyMap, NoO2),
           OpLog(Update, "st", Diff(SetOnly), O2("k")) }

DeleteRecords ==
    { OpLog(Delete, "s.t", ("_id" :> Str("1")), NoO2),
      OpLog(Delete, "s.t", ("_id" :> Whole(7)), NoO2),
      OpLog(Delete, "s.t", EmptyMap, NoO2),
      OpLog(Delete, ".t", ("_id" :> Str("1")), NoO2) }

OtherRecords ==
    { OpLog("n", "s.t", ("_id" :> Str("1")), NoO2),
      OpLog("", "st", EmptyMap, NoO2) }

\* the orders in which a range loop may visit the keys S
RECURSIVE Orders(_)
Orders(S) ==
    IF S = {} THEN { << >> }
    ELSE UNION { { << x >> \o rest : rest \in Orders(S \ {x}) } : x \in S }

\* ------------------------------------------------------------------------
\* State
\* ------------------------------------------------------------------------
VARIABLES
    ddlTracker,      \* opLogParser.ddlTracker
    columnsTracker,  \* opLogParser.columnsTracker
    uuidCalls,       \* number of calls of opLogParser.uuidGenerator so far
    out,             \* the statements returned so far, in order (history)
    last,            \* the last ProcessOpLog call: its record, result and
                     \* the catalog and the generator count before it (history)
    inserted,        \* the namespaces of the insert records handled without
                     \* error so far (history)
    observed,        \* the insert records handled without error so far, in
                     \* order (history)
    failed,          \* some call so far returned an error (history)
    crashed,         \* a panic has ended the process
    nRecords,        \* number of ProcessOpLog calls so far
    parse,           \* the running or returned call of Parse, if any
    stream,          \* the running or returned call of streamOplogs, if any
    formatted,       \* the last two values given to formatValue and their
                     \* literals, if any
    cancelled,       \* ctx.Done() is closed
    reader,          \* the goroutine of Reader.Read
    translator,      \* the goroutine of Process that calls the parser
    sink,            \* the goroutine of Writer.Write
    driver,          \* the select loop of Process
    made,            \* the batches the parser returned to the translator
                     \* goroutine, with the index of their record (history)
    sunk,            \* the batches the sink has received (history)
    writer,          \* the implementation of Writer the pipeline was built with
    file             \* the text the sink has written or executed so far

\* the translator and its callers
parserVars == << ddlTracker, columnsTracker, uuidCalls, out, last, inserted, observed,
                 failed, crashed, nRecords, parse, stream, formatted >>

\* the pipeline around it
pipeVars == << cancelled, reader, translator, sink, driver, made, sunk, writer, file >>

vars == << ddlTracker, columnsTracker, uuidCalls, out, last, inserted, observed,
           failed, crashed, nRecords, parse, stream, formatted, cancelled, reader,
           translator, sink, driver, made, sunk, writer, file >>

\* The goroutines of the pipeline, by their position (pc):
\*   reader      "token" at decoder.Token() (FileReader)
\*               "scan"  at scanner.Scan() (fileReader) or decoder.More()
\*               "putErr"  at errChan <- err after a failed Decode
\*                       (FileReader; errChan is buffered)
\*               "send"  blocked in oplogChan <- val
\*               "sendErr"  blocked in errChan <- err
\*               "done"  returned; oplogChan and errChan are closed
\*   translator  "recv"  blocked in range oplogChan
\*               "got"   at the select on ctx.Done(), holding val, the
\*                       rec-th record of the source
\*               "send"  blocked in processedChan <- batch
\*               "done"  returned; processedChan is closed
\*   sink        "recv"  blocked in range statements
\*               "got"   at the select on ctx.Done(), holding batch
\*               "sendErr"  blocked in errChan <- err (unbuffered errChan)
\*               "done"  returned; its error channel is closed
\*                       buf: the errors waiting in a buffered errChan
\*                       failed: a write or execution has failed
\*   driver      "loop"  at the select of Process; errOpen, wErrOpen: the
\*                       channel variable is not nil
\*               "returned"  Process has returned err
\* "off": no pipeline runs
PipeOff ==
    /\ cancelled = FALSE
    /\ reader = [pc |-> "off", n |-> 0, val |-> NoOpLog, kind |-> "none", buf |-> 0,
                 errs |-> 0, late |-> FALSE]
    /\ translator = [pc |-> "off", val |-> NoOpLog, rec |-> 0, batch |-> << >>]
    /\ sink = [pc |-> "off", batch |-> << >>, buf |-> 0, failed |-> FALSE]
    /\ writer = "none"
    /\ file = ""
    /\ driver = [pc |-> "off", errOpen |-> FALSE, wErrOpen |-> FALSE, err |-> NoError]
    /\ made = << >>
    /\ sunk = << >>

\* the reader goroutine as Read starts it, for fileReader of the persistence
\* layer, which scans lines, and FileReader of the reader package, which
\* decodes a JSON array:
\*   n     number of records read from the source
\*   val   the record being sent
\*   buf   the errors waiting in a buffered errChan
\*   errs  number of errors the goroutine has put on errChan (history)
\*   late  a record was delivered after an error had been put on errChan
\*         (history)
ReadCalled(kind) ==
    [pc |-> IF kind = "FileReader" THEN "token" ELSE "scan", n |-> 0, val |-> NoOpLog,
     kind |-> kind, buf |-> 0, errs |-> 0, late |-> FALSE]

\* the implementations of Writer: fileWriter and PostgresWriter of the writer
\* package, FileWriter of the persistence layer
Writers == {"fileWriter", "FileWriter", "PostgresWriter"}

\* the writers whose errChan is make(chan error, 1)
Buffered == {"FileWriter", "PostgresWriter"}

\* Process has started the three goroutines and entered its loop
PipeStarted ==
    /\ cancelled = FALSE
    /\ reader = ReadCalled("fileReader")
    /\ translator = [pc |-> "recv", val |-> NoOpLog, rec |-> 0, batch |-> << >>]
    /\ sink = [pc |-> "recv", batch |-> << >>, buf |-> 0, failed |-> FALSE]
    /\ writer \in Writers
    /\ file = ""
    /\ driver = [pc |-> "loop", errOpen |-> TRUE, wErrOpen |-> TRUE, err |-> NoError]
    /\ made = << >>
    /\ sunk = << >>

\* main has called r.Read(ctx), started its translator goroutine and called
\* w.Write(ctx, processedChan) of the file writer of package writer, and the
\* goroutine that closes done is in its loop
MainStarted ==
    /\ cancelled = FALSE
    /\ reader = ReadCalled("FileReader")
    /\ translator = [pc |-> "recv", val |-> NoOpLog, rec |-> 0, batch |-> << >>]
    /\ sink = [pc |-> "recv", batch |-> << >>, buf |-> 0, failed |-> FALSE]
    /\ writer = "FileWriter"
    /\ file = ""
    /\ driver = [pc |-> "loop", errOpen |-> TRUE, wErrOpen |-> TRUE, err |-> NoError]
    /\ made = << >>
    /\ sunk = << >>

\* the translator goroutine after the parser returned: an error is logged and
\* the loop continues, a batch is to be sent
Processed(t, stmts, err) ==
    IF t.pc = "off" THEN t
    ELSE IF err # NoError THEN [t EXCEPT !.pc = "recv"]
    ELSE [t EXCEPT !.pc = "send", !.batch = stmts]

\* The call of Parse:
\*   active  the loop over the decoded records is running
\*   done    the call has returned stmts, err
\*   stmts   the local slice "statements", then the returned statements
\*   n       number of records the loop has handed to ProcessOpLog
\*   from    length of out when the call began (history)
NoParse == [active |-> FALSE, done |-> FALSE, stmts |-> << >>, err |-> NoError,
            n |-> 0, from |-> 0]

\* var statements []string, before the loop
ParseCalled(from) == [active |-> TRUE, done |-> FALSE, stmts |-> << >>, err |-> NoError,
                      n |-> 0, from |-> from]

\* the body of the loop of Parse for one record: a panic never returns, an
\* error returns nil and the error, a batch is appended
ParseLoop(p, stmts, err) ==
    IF ~p.active THEN p
    ELSE IF err = Panic THEN [p EXCEPT !.n = @ + 1]
    ELSE IF err # NoError
    THEN [p EXCEPT !.n = @ + 1, !.active = FALSE, !.done = TRUE, !.stmts = << >>,
                   !.err = err]
    ELSE [p EXCEPT !.n = @ + 1, !.stmts = @ \o stmts]

\* The call of streamOplogs, which hands the statements of a record to
\* processStmt one by one:
\*   pc     "off": no call; "next": at the select of the cursor loop;
\*          "stmts": in the statement loop of processOplogEntry;
\*          "returned": the call has returned
\*   rec    number of entries the cursor has delivered
\*   batch  the statements of the entry that are still to be handed over
NoStream == [pc |-> "off", rec |-> 0, batch |-> << >>]

\* streamOplogs has opened its cursor
StreamCalled == [pc |-> "next", rec |-> 0, batch |-> << >>]

\* processOplogEntry after ProcessOpLog returned: an error is returned to
\* the cursor loop, which logs it and continues; otherwise the statement loop
\* begins
Streamed(t, stmts, err) ==
    IF t.pc = "off" THEN t
    ELSE IF err # NoError \/ Len(stmts) = 0 THEN [t EXCEPT !.rec = @ + 1]
    ELSE [t EXCEPT !.rec = @ + 1, !.pc = "stmts", !.batch = stmts]

\* the index, in its source, of the record a caller has handed to ProcessOpLog
Handed(t, st) == IF st.pc = "off" THEN t.rec ELSE st.rec + 1

\* NewParser: empty maps
NewParser ==
    /\ ddlTracker = [x \in {} |-> TRUE]
    /\ columnsTracker = [x \in {} |-> {}]
    /\ uuidCalls = 0
    /\ out = << >>
    /\ last = [opLog |-> NoOpLog, stmts |-> << >>, seen |-> << >>, err |-> NoError,
               ddl0 |-> [x \in {} |-> TRUE], cols0 |-> [x \in {} |-> {}],
               calls0 |-> 0, data1 |-> EmptyMap]
    /\ inserted = {}
    /\ observed = << >>
    /\ failed = FALSE
    /\ crashed = FALSE
    /\ nRecords = 0

\* formatValue has not been called on its own
NoFormat == [n |-> 0, v |-> Nil, w |-> Nil, lv |-> "", lw |-> ""]

\* the translator is driven record by record
Init == NewParser /\ parse = NoParse /\ stream = NoStream /\ formatted = NoFormat /\ PipeOff

\* the translator is driven through Parse
ParseInit == NewParser /\ parse = ParseCalled(0) /\ stream = NoStream /\ formatted = NoFormat /\ PipeOff

\* what the caller of ProcessOpLog observes: on an error the statements are
\* nil, whatever had been appended to the local slice
Returned(opLog, stmts, seen, err, data1) ==
    /\ last' = [opLog |-> opLog,
                stmts |-> IF err = NoError THEN stmts ELSE << >>,
                seen |-> IF err = NoError THEN seen ELSE << >>,
                err |-> err, ddl0 |-> ddlTracker, cols0 |-> columnsTracker,
                calls0 |-> uuidCalls, data1 |-> data1]
    /\ out' = IF err = NoError THEN out \o stmts ELSE out
    /\ inserted' = IF opLog.op = Insert /\ err = NoError
                   THEN inserted \cup {opLog.ns} ELSE inserted
    /\ observed' = IF opLog.op = Insert /\ err = NoError
                   THEN Append(observed, opLog) ELSE observed
    /\ failed' = (failed \/ err # NoError)
    /\ crashed' = (err = Panic)
    /\ nRecords' = nRecords + 1
    /\ parse' = ParseLoop(parse, stmts, err)
    /\ translator' = Processed(translator, stmts, err)
    /\ stream' = Streamed(stream, stmts, err)
    /\ UNCHANGED formatted
    /\ made' = IF (translator.pc = "off" /\ stream.pc = "off") \/ err # NoError THEN made
               ELSE Append(made, [rec |-> Handed(translator, stream), stmts |-> stmts])
    /\ UNCHANGED << cancelled, reader, sink, driver, sunk, writer, file >>

\* the return of handleInsert: the catalog is as the call left it
InsertReturned(opLog, r) ==
    /\ ddlTracker' = r.ddl
    /\ columnsTracker' = r.cols
    /\ uuidCalls' = r.calls
    /\ Returned(opLog, r.stmts, r.seen, r.err, r.data)

\* the return of handleUpdate and handleDelete, which write nothing
Unchanged(opLog, r) == Returned(opLog, r.stmts, << >>, r.err, opLog.o)

\* a record can be processed while the process lives and, under Parse, while
\* the loop runs
CanProcess == ~crashed /\ nRecords < MaxRecords /\ ~parse.done

\* ProcessOpLog, case Insert
ProcessInsert ==
    /\ CanProcess
    /\ \E opLog \in InsertRecords :
         \E nestedOrder \in Orders(DOMAIN splitData(opLog.o).nested),
            arrayOrder \in Orders(DOMAIN splitData(opLog.o).arrays) :
           InsertReturned(opLog, handleInsert(ddlTracker, columnsTracker, uuidCalls,
                                              opLog, nestedOrder, arrayOrder))

\* mutant of ProcessUpdate: the fields of diff.u become columns
ProcessUpdateAddsColumns ==
    /\ CanProcess
    /\ \E opLog \in UpdateRecords :
         /\ Unchanged(opLog, handleUpdate(opLog))
         /\ columnsTracker' =
              IF handleUpdate(opLog).err = NoError
              THEN updateColumnsTracker(columnsTracker, opLog.ns,
                                        DiffGroup(opLog.o[fieldDiff].m, fieldSet))
              ELSE columnsTracker
         /\ UNCHANGED << ddlTracker, uuidCalls >>

\* ProcessOpLog, case Update
ProcessUpdate ==
    /\ CanProcess
    /\ \E opLog \in UpdateRecords :
         /\ Unchanged(opLog, handleUpdate(opLog))
         /\ UNCHANGED << ddlTracker, columnsTracker, uuidCalls >>

\* mutant of ProcessDelete: a delete marks its namespace as created
ProcessDeleteMarksNamespace ==
    /\ CanProcess
    /\ \E opLog \in DeleteRecords :
         /\ Unchanged(opLog, handleDelete(opLog))
         /\ ddlTracker' = markDDLGenerated(ddlTracker, opLog.ns)
         /\ UNCHANGED << columnsTracker, uuidCalls >>

\* ProcessOpLog, case Delete
ProcessDelete ==
    /\ CanProcess
    /\ \E opLog \in DeleteRecords :
         /\ Unchanged(opLog, handleDelete(opLog))
         /\ UNCHANGED << ddlTracker, columnsTracker, uuidCalls >>

\* mutant of ProcessUnsupported: the default case handles the record as a
\* delete
ProcessUnsupportedAsDelete ==
    /\ CanProcess
    /\ \E opLog \in OtherRecords :
         /\ Unchanged(opLog, handleDelete(opLog))
         /\ UNCHANGED << ddlTracker, columnsTracker, uuidCalls >>

\* ProcessOpLog, default case
ProcessUnsupported ==
    /\ CanProcess
    /\ \E opLog \in OtherRecords :
         /\ Returned(opLog, << >>, << >>, ErrUnsupportedOperation, opLog.o)
         /\ UNCHANGED << ddlTracker, columnsTracker, uuidCalls >>

Next == ProcessInsert \/ ProcessUpdate \/ ProcessDelete \/ ProcessUnsupported

Spec == Init /\ [][Next]_vars

\* Parse: the end of the loop, return statements, nil
ParseReturn ==
    /\ ~crashed
    /\ parse.active
    /\ parse' = [parse EXCEPT !.active = FALSE, !.done = TRUE]
    /\ UNCHANGED << ddlTracker, columnsTracker, uuidCalls, out, last, inserted, observed,
                    failed, crashed, nRecords, stream, formatted >>
    /\ UNCHANGED pipeVars

\* Parse is called again on the same translator
ParseCall ==
    /\ ~crashed
    /\ parse.done
    /\ nRecords < MaxRecords
    /\ parse' = ParseCalled(Len(out))
    /\ UNCHANGED << ddlTracker, columnsTracker, uuidCalls, out, last, inserted, observed,
                    failed, crashed, nRecords, stream, formatted >>
    /\ UNCHANGED pipeVars

ParseNext ==
    \/ ProcessInsert \/ ProcessUpdate \/ ProcessDelete \/ ProcessUnsupported
    \/ ParseReturn \/ ParseCall

ParseSpec == ParseInit /\ [][ParseNext]_vars

\* ------------------------------------------------------------------------
\* formatValue on its own
\* ------------------------------------------------------------------------
\* scalar values: strings, booleans, native integers and floating values,
\* among them strings that spell a boolean and a number, and floating values
\* that agree in their first six fractional digits
Scalars ==
    { Str("5"), Str("true"), Str("0.5"), Str("v"), Str(""),
      Bool(TRUE), Bool(FALSE),
      Int64(5), Int64(0),
      Whole(5), Whole(0), Float(5000000), Float(1234561), Float(1234562) }

FormatInit ==
    /\ NewParser /\ parse = NoParse /\ stream = NoStream /\ PipeOff
    /\ formatted \in { [n |-> 0, v |-> v, w |-> w, lv |-> "", lw |-> ""] :
                         v \in Scalars, w \in Scalars }

\* the two values are formatted
FormatValues ==
    /\ formatted.n = 0
    /\ formatted' = [formatted EXCEPT !.n = 1,
                                      !.lv = formatValue(formatted.v),
                                      !.lw = formatValue(formatted.w)]
    /\ UNCHANGED << ddlTracker, columnsTracker, uuidCalls, out, last, inserted, observed,
                    failed, crashed, nRecords, parse, stream >>
    /\ UNCHANGED pipeVars

FormatSpec == FormatInit /\ [][FormatValues]_vars

\* ------------------------------------------------------------------------
\* The pipeline: source -> translator -> sink, and the driver loop
\* ------------------------------------------------------------------------
\* the records a source may hold: an insert with child rows, an insert that
\* fails, an update
PipeRecords ==
    { OpLog(Insert, "s.t", Array, NoO2),
      OpLog(Insert, "s.t", BadElement, NoO2),
      OpLog(Update, "s.t", Diff(SetBoth), O2("k")) }

\* ProcessOpLog: the switch on the operation
ProcessOpLog(opLog) ==
    CASE opLog.op = Insert ->
           \E nestedOrder \in Orders(DOMAIN splitData(opLog.o).nested),
              arrayOrder \in Orders(DOMAIN splitData(opLog.o).arrays) :
             InsertReturned(opLog, handleInsert(ddlTracker, columnsTracker, uuidCalls,
                                                opLog, nestedOrder, arrayOrder))
      [] opLog.op = Update ->
           /\ Unchanged(opLog, handleUpdate(opLog))
           /\ UNCHANGED << ddlTracker, columnsTracker, uuidCalls >>
      [] opLog.op = Delete ->
           /\ Unchanged(opLog, handleDelete(opLog))
           /\ UNCHANGED << ddlTracker, columnsTracker, uuidCalls >>
      [] OTHER ->
           /\ Returned(opLog, << >>, << >>, ErrUnsupportedOperation, opLog.o)
           /\ UNCHANGED << ddlTracker, columnsTracker, uuidCalls >>

\* the cancellation signal fires
Cancel ==
    /\ driver.pc # "off" \/ stream.pc # "off"
    /\ ~cancelled
    /\ cancelled' = TRUE
    /\ UNCHANGED << reader, translator, sink, driver, made, sunk, writer, file >>
    /\ UNCHANGED parserVars

\* fileReader: scanner.Scan() has a record; the select returns on ctx.Done()
\* and otherwise goes on to send it
ReaderScan ==
    /\ reader.kind = "fileReader"
    /\ reader.pc = "scan"
    /\ reader.n < MaxRecords
    /\ \E opLog \in PipeRecords :
         reader' = IF cancelled THEN [reader EXCEPT !.pc = "done"]
                   ELSE [reader EXCEPT !.pc = "send", !.n = @ + 1, !.val = opLog]
    /\ UNCHANGED << cancelled, translator, sink, driver, made, sunk, writer, file >>
    /\ UNCHANGED parserVars

\* FileReader: decoder.Token() reads the opening bracket; its error is put on
\* errChan and the goroutine goes on
ReaderToken ==
    /\ reader.pc = "token"
    /\ \E failure \in BOOLEAN :
         reader' = IF failure
                   THEN [reader EXCEPT !.pc = "scan", !.buf = 1, !.errs = @ + 1]
                   ELSE [reader EXCEPT !.pc = "scan"]
    /\ UNCHANGED << cancelled, translator, sink, driver, made, sunk, writer, file >>
    /\ UNCHANGED parserVars

\* FileReader: decoder.More() is true and the next element is decoded; after
\* a failed Decode the error is put on errChan and the record, as far as it
\* was decoded (here: not at all), is sent all the same. ctx is not looked at
ReaderDecode ==
    /\ reader.kind = "FileReader"
    /\ reader.pc = "scan"
    /\ reader.n < MaxRecords
    /\ \E opLog \in PipeRecords, failure \in BOOLEAN :
         reader' = IF failure
                   THEN [reader EXCEPT !.pc = "putErr", !.n = @ + 1, !.val = NoOpLog]
                   ELSE [reader EXCEPT !.pc = "send", !.n = @ + 1, !.val = opLog]
    /\ UNCHANGED << cancelled, translator, sink, driver, made, sunk, writer, file >>
    /\ UNCHANGED parserVars

\* FileReader: errChan <- err, which waits while the buffer of one is full
ReaderPutErr ==
    /\ reader.pc = "putErr"
    /\ reader.buf = 0
    /\ reader' = [reader EXCEPT !.pc = "send", !.buf = 1, !.errs = @ + 1]
    /\ UNCHANGED << cancelled, translator, sink, driver, made, sunk, writer, file >>
    /\ UNCHANGED parserVars

\* the outcomes of the end of the loop: only fileReader looks for an error
\* there (scanner.Err())
EndOutcomes(kind) == IF kind = "fileReader" THEN BOOLEAN ELSE {FALSE}

\* reader: scanner.Scan() or decoder.More() is false, at the end of the source
\* or, for the scanner, on a read error, which is then to be sent on errChan
ReaderEnd ==
    /\ reader.pc = "scan"
    /\ \E failure \in EndOutcomes(reader.kind) :
         reader' = IF failure THEN [reader EXCEPT !.pc = "sendErr", !.errs = @ + 1]
                   ELSE [reader EXCEPT !.pc = "done"]
    /\ UNCHANGED << cancelled, translator, sink, driver, made, sunk, writer, file >>
    /\ UNCHANGED parserVars

\* oplogChan is unbuffered: the send of the reader meets the receive of the
\* translator
TranslatorReceive ==
    /\ reader.pc = "send"
    /\ translator.pc = "recv"
    /\ reader' = [reader EXCEPT !.pc = "scan", !.val = NoOpLog,
                                !.late = @ \/ reader.errs > 0]
    /\ translator' = [translator EXCEPT !.pc = "got", !.val = reader.val, !.rec = reader.n]
    /\ UNCHANGED << cancelled, sink, driver, made, sunk, writer, file >>
    /\ UNCHANGED parserVars

\* translator: oplogChan is closed, the range loop ends
TranslatorClosed ==
    /\ translator.pc = "recv"
    /\ reader.pc = "done"
    /\ translator' = [translator EXCEPT !.pc = "done"]
    /\ UNCHANGED << cancelled, reader, sink, driver, made, sunk, writer, file >>
    /\ UNCHANGED parserVars

\* translator: case <-ctx.Done(): return
TranslatorCancelled ==
    /\ translator.pc = "got"
    /\ cancelled
    /\ translator' = [translator EXCEPT !.pc = "done", !.val = NoOpLog]
    /\ UNCHANGED << cancelled, reader, sink, driver, made, sunk, writer, file >>
    /\ UNCHANGED parserVars

\* translator: default: the parser is called on the record
TranslatorProcess ==
    /\ translator.pc = "got"
    /\ ~cancelled
    /\ ProcessOpLog(translator.val)

\* mutant of Deliver: the batch reaches the sink twice
DeliverTwice(received, rec, batch) ==
    received \o << [rec |-> rec, stmts |-> batch], [rec |-> rec, stmts |-> batch] >>

\* what the sink has received after one more receive
Deliver(received, rec, batch) == Append(received, [rec |-> rec, stmts |-> batch])

\* processedChan is unbuffered: the send of the translator meets the receive
\* of the sink
SinkReceive ==
    /\ translator.pc = "send"
    /\ sink.pc = "recv"
    /\ translator' = [translator EXCEPT !.pc = "recv", !.batch = << >>, !.val = NoOpLog]
    /\ sink' = [sink EXCEPT !.pc = "got", !.batch = translator.batch]
    /\ sunk' = Deliver(sunk, translator.rec, translator.batch)
    /\ UNCHANGED << cancelled, reader, driver, made, writer, file >>
    /\ UNCHANGED parserVars

\* sink: processedChan is closed, the range loop ends
SinkClosed ==
    /\ sink.pc = "recv"
    /\ translator.pc = "done"
    /\ sink' = [sink EXCEPT !.pc = "done"]
    /\ UNCHANGED << cancelled, reader, translator, driver, made, sunk, writer, file >>
    /\ UNCHANGED parserVars

\* sink: case <-ctx.Done(): return; the writers with a buffered errChan put
\* ctx.Err() into it first
SinkCancelled ==
    /\ sink.pc = "got"
    /\ cancelled
    /\ sink' = [sink EXCEPT !.pc = "done", !.batch = << >>,
                            !.buf = IF writer \in Buffered THEN 1 ELSE 0]
    /\ UNCHANGED << cancelled, reader, translator, driver, made, sunk, writer, file >>
    /\ UNCHANGED parserVars

\* the text one successful call of the writer's Write or Exec carries for
\* the statements stmts: fileWriter writes stmt + ";\n" statement by
\* statement, FileWriter writes strings.Join(oplog, "\n") and PostgresWriter
\* executes strings.Join(oplog, "")
Written(w, stmts) ==
    LET text == [i \in 1..Len(stmts) |-> Render(stmts[i])]
    IN  CASE w = "fileWriter" -> Join([i \in 1..Len(stmts) |-> text[i] \o ";\n"], "")
          [] w = "FileWriter" -> Join(text, "\n")
          [] OTHER -> Join(text, "")

\* how many statements of a batch the writer may get through: fileWriter
\* can fail at any statement, the other two make one call for the batch
WriteOutcomes(w, batch) ==
    IF w = "fileWriter" THEN 0..Len(batch) ELSE {0, Len(batch)}

\* the sink goroutine after the write: on an error it sends the error (into
\* the buffer, or blocking) and returns, otherwise it goes on to receive
AfterWrite(k, w, wrote) ==
    IF wrote = Len(k.batch) THEN [k EXCEPT !.pc = "recv", !.batch = << >>]
    ELSE IF w \in Buffered
    THEN [k EXCEPT !.pc = "done", !.batch = << >>, !.buf = 1, !.failed = TRUE]
    ELSE [k EXCEPT !.pc = "sendErr", !.batch = << >>, !.failed = TRUE]

\* sink: default: the statements are written; the statements before a failed
\* write stay written
SinkWrite ==
    /\ sink.pc = "got"
    /\ ~cancelled
    /\ \E wrote \in WriteOutcomes(writer, sink.batch) :
         /\ sink' = AfterWrite(sink, writer, wrote)
         /\ file' = file \o Written(writer, SubSeq(sink.batch, 1, wrote))
    /\ UNCHANGED << cancelled, reader, translator, driver, made, sunk, writer >>
    /\ UNCHANGED parserVars

\* driver: case err, ok := <-errChan with ok: the error is logged. It comes
\* from the buffer or from fileReader blocked in its send, which then returns
DriverReaderError ==
    /\ driver.pc = "loop"
    /\ driver.errOpen
    /\ reader.pc = "sendErr" \/ reader.buf > 0
    /\ reader' = IF reader.pc = "sendErr" THEN [reader EXCEPT !.pc = "done"]
                 ELSE [reader EXCEPT !.buf = 0]
    /\ UNCHANGED << cancelled, translator, sink, driver, made, sunk, writer, file >>
    /\ UNCHANGED parserVars

\* driver: case err, ok := <-writeErrChan with ok: the error is logged. It
\* comes from the buffer or from the sink blocked in its send
DriverWriterError ==
    /\ driver.pc = "loop"
    /\ driver.wErrOpen
    /\ sink.pc = "sendErr" \/ sink.buf > 0
    /\ sink' = [sink EXCEPT !.pc = "done", !.buf = 0]
    /\ UNCHANGED << cancelled, reader, translator, driver, made, sunk, writer, file >>
    /\ UNCHANGED parserVars

\* mutant of LoopEnd: the loop never returns
LoopEndGoesOn(d) == d

\* the check at the end of the loop body: return nil when both channel
\* variables are nil
LoopEnd(d) ==
    IF ~d.errOpen /\ ~d.wErrOpen THEN [d EXCEPT !.pc = "returned", !.err = NoError] ELSE d

\* driver: errChan is closed, errChan = nil
DriverReaderClosed ==
    /\ driver.pc = "loop"
    /\ driver.errOpen
    /\ reader.pc = "done"
    /\ reader.buf = 0
    /\ driver' = LoopEnd([driver EXCEPT !.errOpen = FALSE])
    /\ UNCHANGED << cancelled, reader, translator, sink, made, sunk, writer, file >>
    /\ UNCHANGED parserVars

\* driver: writeErrChan is closed, writeErrChan = nil
DriverWriterClosed ==
    /\ driver.pc = "loop"
    /\ driver.wErrOpen
    /\ sink.pc = "done"
    /\ sink.buf = 0
    /\ driver' = LoopEnd([driver EXCEPT !.wErrOpen = FALSE])
    /\ UNCHANGED << cancelled, reader, translator, sink, made, sunk, writer, file >>
    /\ UNCHANGED parserVars

\* driver: case <-ctx.Done(): return ctx.Err()
DriverCancelled ==
    /\ driver.pc = "loop"
    /\ cancelled
    /\ driver' = [driver EXCEPT !.pc = "returned", !.err = "context canceled"]
    /\ UNCHANGED << cancelled, reader, translator, sink, made, sunk, writer, file >>
    /\ UNCHANGED parserVars

PipeInit == NewParser /\ parse = NoParse /\ stream = NoStream /\ formatted = NoFormat /\ PipeStarted

ReaderNext == ReaderScan \/ ReaderEnd

TranslatorNext ==
    TranslatorReceive \/ TranslatorClosed \/ TranslatorCancelled \/ TranslatorProcess

SinkNext == SinkReceive \/ SinkClosed \/ SinkCancelled \/ SinkWrite

DriverNext ==
    \/ DriverReaderError \/ DriverWriterError
    \/ DriverReaderClosed \/ DriverWriterClosed \/ DriverCancelled

PipeNext == Cancel \/ ReaderNext \/ TranslatorNext \/ SinkNext \/ DriverNext

PipeSpec == PipeInit /\ [][PipeNext]_vars

\* every goroutine that can take a step eventually takes one; the
\* cancellation signal may never come. The translator's parse step is
\* enabled exactly when it holds a record and the signal has not fired, so
\* its weak fairness is stated with that condition written out.
FairPipeSpec ==
    /\ PipeSpec
    /\ WF_vars(ReaderNext)
    /\ WF_vars(TranslatorReceive \/ TranslatorClosed \/ TranslatorCancelled)
    /\ \/ []<>~(translator.pc = "got" /\ ~cancelled)
       \/ []<><<TranslatorProcess>>_vars
    /\ WF_vars(SinkNext)
    /\ WF_vars(DriverNext)

\* ------------------------------------------------------------------------
\* The pipeline of main: the same goroutines over the Reader that decodes a
\* JSON array; the records arrive decoded and go to ProcessOpLog directly.

MainInit == NewParser /\ parse = NoParse /\ stream = NoStream /\ formatted = NoFormat /\ MainStarted

FileReaderNext == ReaderToken \/ ReaderDecode \/ ReaderPutErr \/ ReaderEnd

MainNext == Cancel \/ FileReaderNext \/ TranslatorNext \/ SinkNext \/ DriverNext

MainSpec == MainInit /\ [][MainNext]_vars

\* ------------------------------------------------------------------------
\* The streaming entry points: one loop reads the cursor, translates and
\* hands each statement to the sink function
\* ------------------------------------------------------------------------
\* cursor loop: the select finds ctx.Done() closed and returns ctx.Err()
StreamCancelled ==
    /\ stream.pc = "next"
    /\ cancelled
    /\ stream' = [stream EXCEPT !.pc = "returned"]
    /\ UNCHANGED << ddlTracker, columnsTracker, uuidCalls, out, last, inserted, observed,
                    failed, crashed, nRecords, parse, formatted >>
    /\ UNCHANGED pipeVars

\* cursor loop, default case: processOplogEntry translates the next entry
StreamEntry ==
    /\ stream.pc = "next"
    /\ ~cancelled
    /\ stream.rec < MaxRecords
    /\ \E opLog \in PipeRecords : ProcessOpLog(opLog)

\* what the sink function has accepted after one more statement of the
\* rec-th record
Accept(received, rec, stmt) ==
    IF Len(received) > 0 /\ received[Len(received)].rec = rec
    THEN [received EXCEPT ![Len(received)].stmts = Append(@, stmt)]
    ELSE Append(received, [rec |-> rec, stmts |-> << stmt >>])

\* the statement loop after processStmt returned: on an error
\* processOplogEntry returns it and the cursor loop logs it and continues
AfterStmt(t, failure) ==
    IF failure \/ Len(t.batch) = 1 THEN [t EXCEPT !.pc = "next", !.batch = << >>]
    ELSE [t EXCEPT !.batch = Tail(@)]

\* processOplogEntry: processStmt(stmt) for the next statement. It fails when
\* the write or the execution fails; Executor.Execute runs under ctx and
\* fails once ctx is cancelled
StreamStmt ==
    /\ stream.pc = "stmts"
    /\ \E failure \in BOOLEAN :
         /\ stream' = AfterStmt(stream, failure)
         /\ sunk' = IF failure THEN sunk ELSE Accept(sunk, stream.rec, Head(stream.batch))
    /\ UNCHANGED << ddlTracker, columnsTracker, uuidCalls, out, last, inserted, observed,
                    failed, crashed, nRecords, parse, formatted >>
    /\ UNCHANGED << cancelled, reader, translator, sink, driver, made, writer, file >>

StreamInit == NewParser /\ parse = NoParse /\ stream = StreamCalled /\ formatted = NoFormat /\ PipeOff

StreamNext == Cancel \/ StreamCancelled \/ StreamEntry \/ StreamStmt

StreamSpec == StreamInit /\ [][StreamNext]_vars

\* ------------------------------------------------------------------------
\* Properties
\* ------------------------------------------------------------------------
Idx(seq) == 1..Len(seq)

\* strictly ascending in byte order
Ascending(seq) == \A i, j \in Idx(seq) : i < j => StrLess(seq[i], seq[j])

IsKind(st, kind) == st.kind = kind

\* the statements returned before the last call
outBefore == SubSeq(out, 1, Len(out) - Len(last.stmts))

InsertOk == last.opLog.op = Insert /\ last.err = NoError
UpdateOk == last.opLog.op = Update /\ last.err = NoError

\* the keys of a document whose value is neither a document nor a sequence
ScalarKeys(o) == { key \in DOMAIN o : o[key].k \notin {"map", "array"} }

\* the child table keys a record with namespace ns and document o can address
ChildKeys(ns, o) == { ns \o "_" \o f : f \in DOMAIN o }

\* C1: while no record has failed, for every namespace that has received an
\* insert record the output holds exactly one CREATE SCHEMA of its schema and
\* exactly one CREATE TABLE of the namespace, both before the first INSERT
\* into the namespace.
C1_OneSchemaOneTable ==
    ~failed =>
      \A n \in inserted :
        LET schemaAt == { i \in Idx(out) : /\ IsKind(out[i], "CREATE SCHEMA")
                                            /\ out[i].schema = parseNamespace(n).schema }
            tableAt == { i \in Idx(out) : IsKind(out[i], "CREATE TABLE") /\ Key(out[i]) = n }
            insertAt == { i \in Idx(out) : IsKind(out[i], "INSERT") /\ Key(out[i]) = n }
        IN  /\ Cardinality(schemaAt) = 1
            /\ Cardinality(tableAt) = 1
            /\ \A i \in schemaAt \cup tableAt, j \in insertAt : i < j

\* C2: the batch of a successful insert ends with the INSERT into the parent
\* table, which occurs nowhere else in it; on a first insert the batch is
\* CREATE SCHEMA, CREATE TABLE parent, child statements, parent INSERT; on a
\* later insert everything before the parent INSERT is an ALTER TABLE of the
\* parent (first position only) or a child statement.
C2_ParentInsertLast ==
    InsertOk =>
      LET b == last.stmts
          n == Len(b)
          ns == last.opLog.ns
          first == ~isDDLGenerated(last.ddl0, ns)
          child(st) == /\ st.kind \in {"CREATE TABLE", "INSERT"}
                       /\ Key(st) \in ChildKeys(ns, last.opLog.o)
      IN  /\ n >= 1
          /\ IsKind(b[n], "INSERT") /\ Key(b[n]) = ns
          /\ \A i \in 1..(n - 1) : ~(IsKind(b[i], "INSERT") /\ Key(b[i]) = ns)
          /\ first => /\ n >= 3
                      /\ IsKind(b[1], "CREATE SCHEMA")
                      /\ b[1].schema = parseNamespace(ns).schema
                      /\ IsKind(b[2], "CREATE TABLE") /\ Key(b[2]) = ns
                      /\ \A i \in 3..(n - 1) : child(b[i])
          /\ ~first => \A i \in 1..(n - 1) :
                          \/ child(b[i])
                          \/ i = 1 /\ IsKind(b[i], "ALTER TABLE") /\ Key(b[i]) = ns

\* a first insert with nested documents: schema, table, children, parent
C2_Witness ==
    /\ InsertOk
    /\ ~isDDLGenerated(last.ddl0, last.opLog.ns)
    /\ Len(last.stmts) >= 6
    /\ \E i \in 3..(Len(last.stmts) - 1) : IsKind(last.stmts[i], "INSERT")

\* C3: the column list of every emitted INSERT is columns[k] at the moment of
\* emission, in ascending order without repetition, and a column the row has
\* no value for gets NULL.
C3_InsertColumnsAreCatalog ==
    \A i \in Idx(last.stmts) :
      IsKind(last.stmts[i], "INSERT") =>
        LET st == last.stmts[i]
            at == last.seen[i]
        IN  /\ Has(at.cols, Key(st))
            /\ Range(st.cols) = at.cols[Key(st)]
            /\ Ascending(st.cols)
            /\ Len(st.items) = Len(st.cols)
            /\ \A j \in Idx(st.cols) :
                 ~Has(at.row, st.cols[j]) => st.items[j] = fieldNull

\* an INSERT (parent or child) with a NULL for a column the row lacks
C3_Witness ==
    \E i \in Idx(last.stmts) :
      /\ IsKind(last.stmts[i], "INSERT")
      /\ Len(last.stmts[i].cols) >= 3
      /\ \E j \in Idx(last.stmts[i].cols) :
           /\ ~Has(last.seen[i].row, last.stmts[i].cols[j])
           /\ last.stmts[i].items[j] = fieldNull

\* C4: every column in the column list of an emitted INSERT into k was named
\* by an earlier emitted CREATE TABLE or ALTER TABLE of k.
C4_DDLBeforeDML ==
    \A j \in Idx(out) :
      IsKind(out[j], "INSERT") =>
        \A c \in Range(out[j].cols) :
          \E i \in 1..(j - 1) :
            /\ out[i].kind \in {"CREATE TABLE", "ALTER TABLE"}
            /\ Key(out[i]) = Key(out[j])
            /\ c \in Range(out[i].cols)

\* C5: a successful insert into a namespace whose CREATE TABLE is already in
\* the output: with new = scalar keys of the record minus columns[namespace],
\* if new is not empty the batch starts with the only ALTER TABLE of the
\* batch, which adds exactly new in ascending order, and the parent INSERT
\* lists the merged columns; if new is empty there is no ALTER TABLE and
\* columns[namespace] is unchanged.
C5_AlterAddsNewColumns ==
    LET ns == last.opLog.ns
        b == last.stmts
        alters == { i \in Idx(b) : IsKind(b[i], "ALTER TABLE") }
        new == ScalarKeys(last.opLog.o) \ last.cols0[ns]
    IN  (/\ InsertOk
         /\ \E i \in Idx(outBefore) :
              IsKind(outBefore[i], "CREATE TABLE") /\ Key(outBefore[i]) = ns)
        => IF new # {}
           THEN /\ alters = {1}
                /\ Key(b[1]) = ns
                /\ Range(b[1].cols) = new
                /\ Ascending(b[1].cols)
                /\ columnsTracker[ns] = last.cols0[ns] \cup new
                /\ Range(b[Len(b)].cols) = last.cols0[ns] \cup new
           ELSE /\ alters = {}
                /\ columnsTracker[ns] = last.cols0[ns]

\* a later insert that brings a new column
C5_Witness ==
    /\ InsertOk
    /\ Has(last.cols0, last.opLog.ns)
    /\ ScalarKeys(last.opLog.o) \ last.cols0[last.opLog.ns] # {}
    /\ IsKind(last.stmts[1], "ALTER TABLE")
    /\ \E i \in Idx(outBefore) :
         IsKind(outBefore[i], "CREATE TABLE") /\ Key(outBefore[i]) = last.opLog.ns

\* C6: while only successful records have been processed, CREATE SCHEMA s
\* occurs at most once in the output for every schema s.
C6_SchemaOnce ==
    ~failed =>
      \A i, j \in Idx(out) :
        (/\ IsKind(out[i], "CREATE SCHEMA")
         /\ IsKind(out[j], "CREATE SCHEMA")
         /\ out[i].schema = out[j].schema) => i = j

\* the groups of an update's diff (an absent group has no keys)
Group(opLog, name) ==
    LET diff == opLog.o[fieldDiff].m
    IN  IF Has(diff, name) /\ diff[name].k = "map" THEN diff[name].m ELSE EmptyMap

\* C7: a successful update with a non-empty diff returns exactly one UPDATE;
\* its SET list is the assignments of diff.u in ascending order followed by
\* the "= NULL" assignments of diff.d in ascending order, and its WHERE
\* clause names matchKey._id.
C7_UpdateSetThenUnset ==
    (UpdateOk /\ DOMAIN Group(last.opLog, fieldSet) \cup DOMAIN Group(last.opLog, fieldUnset) # {})
    => LET u == Group(last.opLog, fieldSet)
           d == Group(last.opLog, fieldUnset)
           nu == Cardinality(DOMAIN u)
           nd == Cardinality(DOMAIN d)
           st == last.stmts[1]
           head == SubSeq(st.items, 1, nu)
           tail == SubSeq(st.items, nu + 1, nu + nd)
       IN  /\ Len(last.stmts) = 1
           /\ IsKind(st, "UPDATE")
           /\ Key(st) = last.opLog.ns
           /\ Len(st.items) = nu + nd
           /\ Range(head) = { f \o " = " \o formatValue(u[f]) : f \in DOMAIN u }
           /\ Ascending(head)
           /\ Range(tail) = { f \o " = NULL" : f \in DOMAIN d }
           /\ Ascending(tail)
           /\ st.id = last.opLog.o2.ID

\* an update that sets two fields and unsets two
C7_Witness ==
    /\ UpdateOk
    /\ Cardinality(DOMAIN Group(last.opLog, fieldSet)) = 2
    /\ Cardinality(DOMAIN Group(last.opLog, fieldUnset)) = 2
    /\ Len(last.stmts[1].items) = 4

\* C8: an update or delete record, successful or not, leaves ddlTracker and
\* columnsTracker as they were before the call, and a successful one returns
\* exactly one statement.
C8_UpdateDeleteKeepCatalog ==
    last.opLog.op \in {Update, Delete} =>
      /\ ddlTracker = last.ddl0
      /\ columnsTracker = last.cols0
      /\ last.err = NoError => Len(last.stmts) = 1

\* an update of a known namespace that sets a field which is not a column
C8_Witness ==
    /\ UpdateOk
    /\ isDDLGenerated(ddlTracker, last.opLog.ns)
    /\ DOMAIN Group(last.opLog, fieldSet) \ columnsTracker[last.opLog.ns] # {}

\* matchKey is absent or its _id is empty
NoMatchId(opLog) == opLog.o2.nil \/ opLog.o2.ID = ""

HasDiffMapping(opLog) == Has(opLog.o, fieldDiff) /\ opLog.o[fieldDiff].k = "map"

\* C9: an update with a valid matchKey._id and a diff mapping whose u and d
\* groups are both empty or absent fails with MalformedUpdate and returns no
\* statement.
C9_EmptyDiffIsMalformed ==
    (/\ last.opLog.op = Update
     /\ ~NoMatchId(last.opLog)
     /\ HasDiffMapping(last.opLog)
     /\ DOMAIN Group(last.opLog, fieldSet) = {}
     /\ DOMAIN Group(last.opLog, fieldUnset) = {})
    => last.err = ErrMalformedUpdate /\ last.stmts = << >>

\* an update without usable matchKey._id, or a delete without _id, fails
\* with MissingId and returns nothing
MissingIdFails ==
    (\/ last.opLog.op = Update /\ NoMatchId(last.opLog)
     \/ last.opLog.op = Delete /\ ~Has(last.opLog.o, fieldID))
    => last.err = ErrMissingId /\ last.stmts = << >>

\* C10 as stated: the MissingId cases, and every update without a diff
\* mapping fails with MalformedUpdate.
C10_Original ==
    /\ MissingIdFails
    /\ (last.opLog.op = Update /\ ~HasDiffMapping(last.opLog))
       => last.err = ErrMalformedUpdate /\ last.stmts = << >>

\* C10, amended: the MissingId cases, and an update with a non-empty
\* matchKey._id but without a diff mapping fails with MalformedUpdate.
C10_MissingIdThenMalformed ==
    /\ MissingIdFails
    /\ (/\ last.opLog.op = Update
        /\ ~NoMatchId(last.opLog)
        /\ ~HasDiffMapping(last.opLog))
       => last.err = ErrMalformedUpdate /\ last.stmts = << >>

\* an update with a matchKey._id and no diff mapping, after one whose
\* matchKey._id is missing
C10_Witness ==
    /\ last.opLog.op = Update
    /\ ~NoMatchId(last.opLog)
    /\ ~HasDiffMapping(last.opLog)
    /\ last.err = ErrMalformedUpdate
    /\ failed

\* the positions of the separator in a namespace
Dots(ns) == { i \in 1..Len(ns) : SubSeq(ns, i, i) = "." }

\* the namespace is not two non-empty parts around one '.'
BadNamespace(ns) == Cardinality(Dots(ns)) # 1 \/ 1 \in Dots(ns) \/ Len(ns) \in Dots(ns)

\* C11: an insert whose namespace is not two non-empty parts around one '.'
\* fails with InvalidNamespace, returns no statements and leaves the catalog
\* as it was; an update with a matchKey._id and a diff mapping, and a delete
\* with an _id, fail with InvalidNamespace under the same rule.
C11_InvalidNamespace ==
    BadNamespace(last.opLog.ns) =>
      /\ last.opLog.op = Insert =>
           /\ last.err = ErrInvalidNamespace
           /\ last.stmts = << >>
           /\ ddlTracker = last.ddl0
           /\ columnsTracker = last.cols0
      /\ (/\ last.opLog.op = Update
          /\ ~NoMatchId(last.opLog)
          /\ HasDiffMapping(last.opLog)) => last.err = ErrInvalidNamespace /\ last.stmts = << >>
      /\ (last.opLog.op = Delete /\ Has(last.opLog.o, fieldID))
           => last.err = ErrInvalidNamespace /\ last.stmts = << >>

\* an insert with an empty namespace part is refused by a translator whose
\* catalog already has tables
C11_Witness ==
    /\ last.opLog.op = Insert
    /\ Dots(last.opLog.ns) = {Len(last.opLog.ns)}
    /\ last.err = ErrInvalidNamespace
    /\ DOMAIN ddlTracker # {}

\* C12 as stated: every insert with an empty data mapping fails with
\* MissingData and returns no statement.
C12_Original ==
    (last.opLog.op = Insert /\ DOMAIN last.opLog.o = {})
    => last.err = ErrMissingData /\ last.stmts = << >>

\* C12, amended: an insert with a valid namespace and an empty data mapping
\* fails with MissingData, and an insert with an empty data mapping returns
\* no statement whatever its namespace.
C12_EmptyDataIsMissingData ==
    (last.opLog.op = Insert /\ DOMAIN last.opLog.o = {})
    => /\ last.stmts = << >>
       /\ ~BadNamespace(last.opLog.ns) => last.err = ErrMissingData

\* a first insert with empty data: the table was registered on the way, and
\* nothing was returned
C12_Witness ==
    /\ last.opLog.op = Insert
    /\ DOMAIN last.opLog.o = {}
    /\ last.err = ErrMissingData
    /\ ~isDDLGenerated(last.ddl0, last.opLog.ns)
    /\ isDDLGenerated(ddlTracker, last.opLog.ns)
    /\ out = << >>

\* C13: a record whose operation tag is none of i, u, d fails with
\* UnsupportedOperation, returns no statements and leaves the catalog as it
\* was, whatever its namespace and data.
C13_UnsupportedOperation ==
    (nRecords > 0 /\ last.opLog.op \notin {Insert, Update, Delete})
    => /\ last.err = ErrUnsupportedOperation
       /\ last.stmts = << >>
       /\ ddlTracker = last.ddl0
       /\ columnsTracker = last.cols0

\* a record with an unknown tag, an invalid namespace and no data reaches a
\* translator whose catalog has tables
C13_Witness ==
    /\ nRecords > 0
    /\ last.opLog.op \notin {Insert, Update, Delete}
    /\ BadNamespace(last.opLog.ns)
    /\ last.err = ErrUnsupportedOperation
    /\ DOMAIN ddlTracker # {}

\* C14: Parse returns the concatenation, in input order, of the batches of
\* its records; as soon as a record of the call fails, Parse has returned that
\* record's error and no statements; and once Parse has returned, no further
\* record is processed and the catalog stays as it is.
C14_ParseAbortsAtFirstError ==
    /\ [](/\ (parse.done /\ parse.err = NoError)
               => parse.stmts = SubSeq(out, parse.from + 1, Len(out))
          /\ (parse.n > 0 /\ last.err # NoError)
               => /\ parse.done
                  /\ parse.err = last.err
                  /\ parse.stmts = << >>)
    /\ [][(parse.done /\ parse'.done)
            => UNCHANGED << ddlTracker, columnsTracker, nRecords, out >>]_vars

\* C15: the output holds at most one CREATE TABLE per table key; a CREATE
\* TABLE of a child table is immediately followed by the INSERT of the child
\* row that caused it, and no INSERT into that table was emitted before it, so
\* every other child row emits its INSERT only; a batch holds no CREATE SCHEMA
\* besides the one that opens the batch of a first insert.
C15_ChildTableOnce ==
    /\ \A i, j \in Idx(out) :
         (/\ IsKind(out[i], "CREATE TABLE")
          /\ IsKind(out[j], "CREATE TABLE")
          /\ Key(out[i]) = Key(out[j])) => i = j
    /\ \A i \in Idx(last.stmts) :
         LET b == last.stmts
         IN  /\ IsKind(b[i], "CREATE SCHEMA") => i = 1
             /\ (IsKind(b[i], "CREATE TABLE") /\ Key(b[i]) # last.opLog.ns) =>
                  /\ i < Len(b)
                  /\ IsKind(b[i + 1], "INSERT")
                  /\ Key(b[i + 1]) = Key(b[i])
                  /\ \A j \in Idx(outBefore) :
                       ~(IsKind(outBefore[j], "INSERT") /\ Key(outBefore[j]) = Key(b[i]))
                  /\ \A j \in 1..(i - 1) :
                       ~(IsKind(b[j], "INSERT") /\ Key(b[j]) = Key(b[i]))

\* a child row of a later record goes into a child table created by an
\* earlier record: its batch has the INSERT and no CREATE TABLE
C15_Witness ==
    /\ InsertOk
    /\ \E i \in Idx(last.stmts) :
         /\ IsKind(last.stmts[i], "INSERT")
         /\ Key(last.stmts[i]) # last.opLog.ns
         /\ \A j \in Idx(last.stmts) :
              ~(IsKind(last.stmts[j], "CREATE TABLE") /\ Key(last.stmts[j]) = Key(last.stmts[i]))
         /\ \E j \in Idx(outBefore) :
              /\ j < Len(outBefore)
              /\ IsKind(outBefore[j], "CREATE TABLE")
              /\ Key(outBefore[j]) = Key(last.stmts[i])
              /\ IsKind(outBefore[j + 1], "INSERT")
              /\ Key(outBefore[j + 1]) = Key(last.stmts[i])

\* the table part of a valid namespace
TableOf(ns) == SubSeq(ns, (CHOOSE i \in Dots(ns) : TRUE) + 1, Len(ns))

\* the positions of the child INSERTs in the batch of the last call
ChildInsertAt ==
    { i \in Idx(last.stmts) :
        IsKind(last.stmts[i], "INSERT") /\ Key(last.stmts[i]) # last.opLog.ns }

\* the column has the value in the INSERT
Carries(st, col, value) ==
    \E j \in Idx(st.cols) : st.cols[j] = col /\ st.items[j] = "'" \o value \o "'"

\* C16: every child INSERT of a successful insert into s.t has the column
\* t__id with the record's _id and the column _id with the identifier the
\* generator returned for that row, whatever the child document held under
\* these names.
C16_ChildRowIdentity ==
    InsertOk =>
      \A i \in ChildInsertAt :
        /\ Carries(last.stmts[i], TableOf(last.opLog.ns) \o "__id", last.opLog.o[fieldID].s)
        /\ Carries(last.stmts[i], fieldID,
                   uuidGenerator(uuidCalls - Cardinality({ j \in ChildInsertAt : j >= i })))

\* C17: every table key marked in ddlTracker has a non-empty column set that
\* contains _id.
C17_CatalogHasId ==
    \A k \in DOMAIN ddlTracker :
      ddlTracker[k] => /\ Has(columnsTracker, k)
                       /\ columnsTracker[k] # {}
                       /\ fieldID \in columnsTracker[k]

\* C18: in every step, a table key marked in ddlTracker stays marked, every
\* key of columnsTracker stays a key, and its column set does not lose a
\* column.
C18_CatalogOnlyGrows ==
    [][/\ \A k \in DOMAIN ddlTracker :
            ddlTracker[k] => Has(ddlTracker', k) /\ ddlTracker'[k]
       /\ \A k \in DOMAIN columnsTracker :
            Has(columnsTracker', k) /\ columnsTracker[k] \subseteq columnsTracker'[k]
      ]_vars

\* after a failed call, a later insert has added columns to a table that
\* already had some
C18_Witness ==
    /\ failed
    /\ InsertOk
    /\ \E k \in DOMAIN last.cols0 :
         /\ last.cols0[k] # {}
         /\ last.cols0[k] # columnsTracker[k]
         /\ last.cols0[k] \subseteq columnsTracker[k]

\* the statements of a sequence of batches, one after the other
RECURSIVE Flatten(_)
Flatten(batches) ==
    IF Len(batches) = 0 THEN << >>
    ELSE Head(batches).stmts \o Flatten(Tail(batches))

\* C19: the batches the sink has received are, in the same order and each as
\* one whole unit received once, the first batches the parser returned; these
\* are in the order of their records in the source, and their statements are
\* the returned statements in emission order.
C19_SinkReceivesInOrder ==
    /\ Len(sunk) <= Len(made)
    /\ sunk = SubSeq(made, 1, Len(sunk))
    /\ \A i, j \in Idx(made) : i < j => made[i].rec < made[j].rec
    /\ Flatten(made) = out

\* the sink has received the batches of the first and the third record, the
\* second having failed
C19_Witness ==
    /\ Len(sunk) = 2
    /\ sunk[1].rec = 1
    /\ sunk[2].rec = 3
    /\ Len(sunk[1].stmts) > 1
    /\ failed

\* C20: once the cancellation signal has fired, the reader, the translator
\* and the sink goroutine all eventually return.
C20_CancelledTasksReturn ==
    cancelled ~> (reader.pc = "done" /\ translator.pc = "done" /\ sink.pc = "done")

\* the batch ProcessOpLog returned for the rec-th record of the source
BatchOf(rec) == { made[j].stmts : j \in { i \in Idx(made) : made[i].rec = rec } }

\* C21: whether or not the cancellation signal has fired, a batch is in
\* flight or at the sink only as the complete batch ProcessOpLog returned
\* for its record: the batch the translator is sending, the batch the sink
\* goroutine holds and, whenever no record is half way through being handed
\* over, every batch the sink has received are whole, never a strict prefix
\* or another part of it.
C21_NoPartialBatch ==
    /\ stream.pc # "stmts" => \A i \in Idx(sunk) : BatchOf(sunk[i].rec) = { sunk[i].stmts }
    /\ translator.pc = "send" => BatchOf(translator.rec) = { translator.batch }
    /\ sink.pc = "got" => sink.batch = sunk[Len(sunk)].stmts

\* C22: after ProcessOpLog has failed on a record in the pipeline, no later
\* record of the source is handed to ProcessOpLog and no further batch is
\* produced for the sink.
C22_FailureStopsPipeline ==
    [][failed => (nRecords' = nRecords /\ made' = made)]_vars

\* C23: once a write or an execution of the sink has failed, the sink has
\* stopped consuming, and, unless the cancellation signal fires, Process
\* eventually returns and the reader and the translator goroutine eventually
\* return too, whatever the source still holds.
C23_SinkErrorEndsPipeline ==
    /\ [](sink.failed => sink.pc \in {"sendErr", "done"})
    /\ sink.failed ~> \/ cancelled
                      \/ /\ driver.pc = "returned"
                         /\ reader.pc = "done"
                         /\ translator.pc = "done"

\* the writers that write to a file
FileWriters == {"fileWriter", "FileWriter"}

\* each statement followed by one newline, in order
RECURSIVE Lines(_)
Lines(stmts) ==
    IF Len(stmts) = 0 THEN ""
    ELSE Render(Head(stmts)) \o "\n" \o Lines(Tail(stmts))

\* C24: with a file sink, whenever every received batch has been written
\* (the sink is back at its receive and no write has failed), the content of
\* the file is exactly each statement of the received batches, in order,
\* followed by one newline, with nothing else appended.
C24_FileIsStatementLines ==
    (writer \in FileWriters /\ sink.pc = "recv" /\ ~sink.failed)
        => file = Lines(Flatten(sunk))

\* the fields of a document whose value is a non-empty array that does not
\* begin with a document
ScalarArrays(o) ==
    { key \in DOMAIN o :
        /\ o[key].k = "array"
        /\ Len(o[key].a) > 0
        /\ o[key].a[1].k # "map" }

\* C25: an insert record with a well-formed namespace whose data has a field
\* holding a non-empty array of scalars fails with the type error and returns
\* no statement, whether or not the namespace and the field are known.
C25_ScalarArrayFails ==
    (/\ last.opLog.op = Insert
     /\ ~BadNamespace(last.opLog.ns)
     /\ ScalarArrays(last.opLog.o) # {})
        => (last.err = ErrTypeError /\ last.stmts = << >>)

\* every record so far was an insert into the namespace of the last one and
\* was handled without error
OneNamespaceInserts ==
    /\ nRecords > 0
    /\ ~failed
    /\ Len(observed) = nRecords
    /\ \A i \in Idx(observed) : observed[i].ns = last.opLog.ns

\* the column list of the parent INSERT of the last call
LastInsertColumns == Range(last.stmts[Len(last.stmts)].cols)

\* the keys of a document that are columns of its own table: the value is
\* neither a document, nor an array of documents, nor an empty array
MainKeys(o) ==
    { key \in DOMAIN o :
        /\ o[key].k # "map"
        /\ o[key].k = "array" => key \in ScalarArrays(o) }

\* C26 as stated: after an error-free stream of inserts into one namespace,
\* the columns of the last parent INSERT are the keys ever observed in the
\* data of those records.
C26_Original ==
    OneNamespaceInserts =>
        LastInsertColumns = UNION { DOMAIN observed[i].o : i \in Idx(observed) }

\* C26: after an error-free stream of inserts into one namespace, the last
\* statement is the parent INSERT and its columns are the keys ever observed
\* in the data of those records whose value was neither a document, nor an
\* array of documents, nor an empty array.
C26_LastInsertHasAllMainKeys ==
    OneNamespaceInserts =>
        /\ IsKind(last.stmts[Len(last.stmts)], "INSERT")
        /\ Key(last.stmts[Len(last.stmts)]) = last.opLog.ns
        /\ LastInsertColumns = UNION { MainKeys(observed[i].o) : i \in Idx(observed) }

\* three inserts into one namespace, with different main keys, a nested
\* document and an array of documents
C26_Witness ==
    /\ OneNamespaceInserts
    /\ nRecords = 3
    /\ \E i, j \in Idx(observed) : MainKeys(observed[i].o) # MainKeys(observed[j].o)
    /\ \E i \in Idx(observed) : MainKeys(observed[i].o) # DOMAIN observed[i].o
    /\ LastInsertColumns # MainKeys(last.opLog.o)

\* C27: a step adds a key to the catalog (to ddlTracker or to columnsTracker)
\* only while it processes an insert record; update, delete and unsupported
\* records leave an empty catalog empty.
C27_OnlyInsertsCreateEntries ==
    [][(\/ DOMAIN ddlTracker' # DOMAIN ddlTracker
        \/ DOMAIN columnsTracker' # DOMAIN columnsTracker)
          => last'.opLog.op = Insert]_vars

\* three records, the last one unsupported and one of them an update or a
\* delete that returned its statement, and the catalog is still empty
C27_Witness ==
    /\ nRecords = 3
    /\ DOMAIN ddlTracker = {}
    /\ DOMAIN columnsTracker = {}
    /\ last.opLog.op \notin {Insert, Update, Delete}
    /\ Len(out) > 0

\* C28: after ProcessOpLog returns, the caller's record is as it was before
\* the call: its nested documents and array elements have exactly the keys
\* and values they had.
C28_CallerRecordUnchanged ==
    nRecords > 0 => last.data1 = last.opLog.o

\* the array fields of a document that begin with a document and hold some
\* element that is not a document
MixedArrays(o) ==
    { key \in DOMAIN o :
        /\ o[key].k = "array"
        /\ Len(o[key].a) > 0
        /\ o[key].a[1].k = "map"
        /\ \E i \in 1..Len(o[key].a) : o[key].a[i].k # "map" }

\* the errors the taxonomy tags as TypeError
TypeErrors == {ErrTypeError, ErrNotAMap}

\* C29: an insert record with a well-formed namespace and an array field
\* that begins with a document but holds an element that is not a document
\* fails with an error tagged TypeError and returns no statement.
C29_MixedArrayFails ==
    (/\ last.opLog.op = Insert
     /\ ~BadNamespace(last.opLog.ns)
     /\ MixedArrays(last.opLog.o) # {})
        => (last.err \in TypeErrors /\ last.stmts = << >>)

\* v is a document one of whose values is a document or an array
HoldsDeeper(v) ==
    v.k = "map" /\ \E key \in DOMAIN v.m : v.m[key].k \in {"map", "array"}

\* the fields of a document whose nested document, or one of whose array
\* elements, holds a document or an array
DeeperFields(o) ==
    { key \in DOMAIN o :
        \/ HoldsDeeper(o[key])
        \/ /\ o[key].k = "array"
           /\ Len(o[key].a) > 0
           /\ o[key].a[1].k = "map"
           /\ \E i \in 1..Len(o[key].a) : HoldsDeeper(o[key].a[i]) }

\* C30: an insert record with a well-formed namespace and a string
\* identifier, one of whose nested documents or array elements itself holds
\* a document or an array, returns an error and no statement, whether its
\* child table is new or already in the catalog.
C30_DeeperNestingFails ==
    (/\ last.opLog.op = Insert
     /\ ~BadNamespace(last.opLog.ns)
     /\ Has(last.opLog.o, fieldID)
     /\ last.opLog.o[fieldID].k = "string"
     /\ DeeperFields(last.opLog.o) # {})
        => (last.err \notin {NoError, Panic} /\ last.stmts = << >>)

\* the INSERT statements of a batch into tables other than the namespace of
\* its record
ChildInserts(stmts, ns) ==
    { i \in Idx(stmts) : IsKind(stmts[i], "INSERT") /\ Key(stmts[i]) # ns }

\* an insert record without nested documents and arrays of documents
FlatInsert(opLog) ==
    /\ opLog.op = Insert
    /\ \A key \in DOMAIN opLog.o :
         /\ opLog.o[key].k # "map"
         /\ opLog.o[key].k = "array" =>
              (Len(opLog.o[key].a) = 0 \/ opLog.o[key].a[1].k # "map")

\* C31: a call that returns without error has called the identifier
\* generator as many times as its batch holds child INSERT statements, and
\* a call for an update, a delete, an unsupported or a flat insert record
\* has not called it at all.
C31_OneIdentifierPerChildRow ==
    nRecords > 0 =>
      /\ last.err = NoError =>
           uuidCalls - last.calls0 = Cardinality(ChildInserts(last.stmts, last.opLog.ns))
      /\ (last.opLog.op # Insert \/ FlatInsert(last.opLog)) => uuidCalls = last.calls0

\* an insert with two child rows after a call that had used the generator
C31_Witness ==
    /\ last.err = NoError
    /\ last.calls0 > 0
    /\ uuidCalls = last.calls0 + 2
    /\ Cardinality(ChildInserts(last.stmts, last.opLog.ns)) = 2

\* C32: after a call that returned without error, every table key into
\* which the call inserted a child row has the synthetic identifier and the
\* reference to the parent among its columns, whichever record registered
\* the key first.
C32_ChildKeyHasIdentity ==
    (nRecords > 0 /\ last.err = NoError) =>
      \A i \in ChildInserts(last.stmts, last.opLog.ns) :
        {fieldID, TableOf(last.opLog.ns) \o "_" \o fieldID}
            \subseteq getKnownColumns(columnsTracker, Key(last.stmts[i]))

\* C33: the error channel of a Read carries at most one error, and no record
\* is delivered on the record channel after an error has been put on the
\* error channel.
C33_OneTerminalError == reader.errs <= 1 /\ ~reader.late

\* C34: two scalar values (string, boolean, native integer, floating) that
\* differ in kind or in content, and are not both floating, never format to
\* the same SQL literal.
C34_FormatInjective ==
    (/\ formatted.n > 0
     /\ formatted.v # formatted.w
     /\ ~(formatted.v.k = "float64" /\ formatted.w.k = "float64"))
        => formatted.lv # formatted.lw

\* C35: whenever ProcessOpLog returns an error for a record, the catalog
\* (the tables marked as created and the known columns of every table key,
\* parent and child) is as it was before the call.
C35_ErrorLeavesCatalog ==
    (nRecords > 0 /\ last.err # NoError)
        => (ddlTracker = last.ddl0 /\ columnsTracker = last.cols0)

\* the insert records with a nested document or array field whose _id is
\* absent or not a string
NeedsIdentity(opLog) ==
    /\ opLog.op = Insert
    /\ ~FlatInsert(opLog)
    /\ (~Has(opLog.o, fieldID) \/ opLog.o[fieldID].k # "string")

\* C36: ProcessOpLog never panics; an insert record that has nested document
\* or array fields but whose _id is absent or not a string is answered with
\* an error and no statements.
C36_NoPanic ==
    /\ ~crashed
    /\ (nRecords > 0 /\ NeedsIdentity(last.opLog))
          => (last.err # NoError /\ last.stmts = << >>)

\* a value that becomes rows of a child table
HoldsRows(v) == v.k = "map" \/ (v.k = "array" /\ Len(v.a) > 0 /\ v.a[1].k = "map")

\* the table keys an insert record registers for its child rows
ChildTablesOf(opLog) ==
    { opLog.ns \o "_" \o key : key \in { f \in DOMAIN opLog.o : HoldsRows(opLog.o[f]) } }

\* the child tables of the insert records handled without error so far
ChildTables == UNION { ChildTablesOf(observed[i]) : i \in Idx(observed) }

\* C37: no ALTER TABLE is emitted for a child table; the known columns of a
\* child table stay as they were first registered; and a child row is
\* emitted, without error, with exactly the known columns of its table, a
\* field of the row outside them being left out.
C37_ChildTablesNeverAltered ==
    (nRecords > 0 /\ last.err = NoError) =>
      /\ \A i \in Idx(last.stmts) :
           IsKind(last.stmts[i], "ALTER TABLE") => Key(last.stmts[i]) \notin ChildTables
      /\ \A key \in ChildTables \cap DOMAIN last.cols0 :
           columnsTracker[key] = last.cols0[key]
      /\ \A i \in ChildInserts(last.stmts, last.opLog.ns) :
           last.stmts[i].cols =
               SortStrings(getKnownColumns(columnsTracker, Key(last.stmts[i])))

\* the pipeline has ended normally: every record read has its batch, every
\* batch has reached the sink, the three goroutines have returned (closing
\* their channels) and Process has returned nil
EndedNormally ==
    /\ Len(made) = reader.n
    /\ sunk = made
    /\ reader.pc = "done"
    /\ translator.pc = "done"
    /\ sink.pc = "done"
    /\ driver.pc = "returned"
    /\ driver.err = NoError

\* C38: when no call of the parser fails or panics, no write of the sink
\* fails and the cancellation signal never fires, the pipeline over a finite
\* source eventually ends normally.
C38_NormalTermination ==
    ([]~cancelled /\ []~failed /\ []~crashed /\ []~sink.failed) => <>EndedNormally

\* three records have gone through and the pipeline has ended normally
C38_Witness ==
    /\ EndedNormally
    /\ Len(sunk) = 3
    /\ ~cancelled /\ ~failed /\ ~crashed /\ ~sink.failed

\* the batches handleInsert can return for a record from a catalog and a
\* generator count, over the orders in which its range loops may visit the
\* nested fields
Batches(ddl, cols, calls, opLog) ==
    { handleInsert(ddl, cols, calls, opLog, nestedOrder, arrayOrder).stmts :
        nestedOrder \in Orders(DOMAIN splitData(opLog.o).nested),
        arrayOrder \in Orders(DOMAIN splitData(opLog.o).arrays) }

\* C39: the statements an insert record is answered with are determined by
\* the catalog before the call, the record and the results of the
\* identifier generator: the batch of the last call is the only batch
\* handleInsert can return from there, the order of the child statements of
\* different nested fields included.
C39_Deterministic ==
    (nRecords > 0 /\ InsertOk)
        => Batches(last.ddl0, last.cols0, last.calls0, last.opLog) = { last.stmts }

====
